---- MODULE Spec2Model ----
(***************************************************************************)
(* The expense tracker of src/expense_tracker_ai.py as a state machine.    *)
(*                                                                         *)
(* The program is a Streamlit script: every user interaction re-runs the   *)
(* whole script top to bottom with at most one button reporting a click.   *)
(* One action of the model is therefore one complete script run: the       *)
(* handler of the clicked button followed by the expense table and the     *)
(* aggregation block.  The only state that survives a run is               *)
(* st.session_state.expenses and the widget values.                        *)
(*                                                                         *)
(* Text is a sequence of one-character strings.  A Python float is an      *)
(* exact rational [n, d] in lowest terms with d > 0: binary rounding is    *)
(* not modelled, and the float literals nan, inf, 1e3 and 1_0 cannot be    *)
(* written with the characters the inputs are drawn from.                  *)
(***************************************************************************)
EXTENDS Integers, Sequences, FiniteSets, TLC

VARIABLES
    expenses,     \* st.session_state.expenses
    user_budget,  \* the value of the budget field
    run,          \* the last script run: the button clicked and its inputs
    before,       \* history: the store when the last script run began
    msgs,         \* the messages the last run's handler showed
    err,          \* the exception that ended the last run, or none
    view,         \* what the aggregation block of the last run showed
    probe         \* the phase and input of SpecExtract and SpecAggregate

vars == <<expenses, user_budget, run, before, msgs, err, view, probe>>

(***************************************************************************)
(* Bounds of the model.                                                    *)
(***************************************************************************)
\* Largest number of records the store holds in the model.
MaxStore == 3

\* Largest number of records of a store the aggregation alone is applied
\* to in SpecAggregate.
MaxRecs == 3

\* Longest free text the amount extractor is applied to in SpecExtract.
MaxText == 4

(***************************************************************************)
(* Characters and text.                                                    *)
(***************************************************************************)
Upper == <<"A","B","C","D","E","F","G","H","I","J","K","L","M",
           "N","O","P","Q","R","S","T","U","V","W","X","Y","Z">>

Lower == <<"a","b","c","d","e","f","g","h","i","j","k","l","m",
           "n","o","p","q","r","s","t","u","v","w","x","y","z">>

DigitChars == <<"0","1","2","3","4","5","6","7","8","9">>

Range(s) == { s[i] : i \in 1..Len(s) }

IndexOf(c, s) == CHOOSE i \in 1..Len(s) : s[i] = c

Digits == Range(DigitChars)

\* The value of a digit character (int() of one digit).
DigitVal(c) == IndexOf(c, DigitChars) - 1

\* The code point of a character: Python orders str values by code point.
Ord(c) ==
    IF c \in Range(Upper) THEN 64 + IndexOf(c, Upper)
    ELSE IF c \in Range(Lower) THEN 96 + IndexOf(c, Lower)
    ELSE IF c \in Digits THEN 47 + IndexOf(c, DigitChars)
    ELSE CASE c = " " -> 32
           [] c = "+" -> 43
           [] c = "," -> 44
           [] c = "-" -> 45
           [] c = "." -> 46
           [] c = ":" -> 58
           [] c = "₹" -> 8377

\* s < t for Python str: lexicographic by code point, a proper prefix first.
RECURSIVE StrLess(_, _)
StrLess(s, t) ==
    IF t = <<>> THEN FALSE
    ELSE IF s = <<>> THEN TRUE
    ELSE IF Head(s) = Head(t) THEN StrLess(Tail(s), Tail(t))
    ELSE Ord(Head(s)) < Ord(Head(t))

\* Characters str.strip() and the regex class \s remove or match.
Whitespace == {" "}

RECURSIVE LStrip(_)
LStrip(s) ==
    IF s # <<>> /\ Head(s) \in Whitespace THEN LStrip(Tail(s)) ELSE s

RECURSIVE RStrip(_)
RStrip(s) ==
    IF s # <<>> /\ s[Len(s)] \in Whitespace
    THEN RStrip(SubSeq(s, 1, Len(s) - 1))
    ELSE s

\* str.strip()
Strip(s) == RStrip(LStrip(s))

\* str.split(sep): the pieces between separators; never an empty list.
RECURSIVE Split(_, _)
Split(s, sep) ==
    IF \E i \in 1..Len(s) : s[i] = sep
    THEN LET i == CHOOSE k \in 1..Len(s) :
                      s[k] = sep /\ \A j \in 1..(k - 1) : s[j] # sep
         IN  <<SubSeq(s, 1, i - 1)>> \o Split(SubSeq(s, i + 1, Len(s)), sep)
    ELSE <<s>>

(***************************************************************************)
(* Numbers.                                                                *)
(***************************************************************************)
Abs(x) == IF x < 0 THEN -x ELSE x

RECURSIVE GCD(_, _)
GCD(a, b) == IF b = 0 THEN a ELSE GCD(b, a % b)

RECURSIVE Pow10(_)
Pow10(k) == IF k = 0 THEN 1 ELSE 10 * Pow10(k - 1)

\* n/d in lowest terms, for d > 0.
Rat(n, d) ==
    LET g == GCD(Abs(n), d) IN [n |-> n \div g, d |-> d \div g]

RatAdd(a, b) == Rat(a.n * b.d + b.n * a.d, a.d * b.d)

RatLess(a, b) == a.n * b.d < b.n * a.d

Zero == Rat(0, 1)

\* What Python's x / k gives: ok = FALSE is ZeroDivisionError.
Divide(x, k) ==
    IF k = 0 THEN [ok |-> FALSE, exc |-> "ZeroDivisionError"]
    ELSE [ok |-> TRUE, val |-> Rat(x.n, x.d * k)]

\* The decimal numeral of a digit string (0 for the empty string).
RECURSIVE DigitsVal(_)
DigitsVal(s) ==
    IF s = <<>> THEN 0
    ELSE 10 * DigitsVal(SubSeq(s, 1, Len(s) - 1)) + DigitVal(s[Len(s)])

\* float(s): an optional sign, then digits with at most one '.', at least
\* one digit; surrounding whitespace is ignored.  ok = FALSE is ValueError.
ParseFloat(s0) ==
    LET s    == Strip(s0)
        sgn  == s # <<>> /\ Head(s) \in {"-", "+"}
        neg  == s # <<>> /\ Head(s) = "-"
        body == IF sgn THEN Tail(s) ELSE s
        dots == { i \in 1..Len(body) : body[i] = "." }
        wellFormed ==
            /\ \A i \in 1..Len(body) : body[i] \in Digits \cup {"."}
            /\ Cardinality(dots) <= 1
            /\ \E i \in 1..Len(body) : body[i] \in Digits
    IN  IF ~wellFormed THEN [ok |-> FALSE]
        ELSE LET p    == IF dots = {} THEN Len(body) + 1
                         ELSE CHOOSE i \in dots : TRUE
                 ip   == SubSeq(body, 1, p - 1)
                 fp   == SubSeq(body, p + 1, Len(body))
                 mag  == DigitsVal(ip) * Pow10(Len(fp)) + DigitsVal(fp)
             IN  [ok  |-> TRUE,
                  val |-> Rat(IF neg THEN -mag ELSE mag, Pow10(Len(fp)))]

(***************************************************************************)
(* The amount extractor: re.search of the amount pattern, then float().   *)
(***************************************************************************)
\* The character at position i, the empty string past either end.
At(text, i) == IF i \in 1..Len(text) THEN text[i] ELSE ""

\* Lengths the optional group (?:₹|INR)? can take at p, preferred first.
CurrencyLens(text, p) ==
    (IF At(text, p) = "₹" THEN <<1>> ELSE <<>>)
    \o (IF /\ At(text, p) = "I"
           /\ At(text, p + 1) = "N"
           /\ At(text, p + 2) = "R" THEN <<3>> ELSE <<>>)
    \o <<0>>

\* Lengths \s? can take at i, preferred first.
SpaceLens(text, i) ==
    (IF At(text, i) \in Whitespace THEN <<1>> ELSE <<>>) \o <<0>>

\* Where group 1 starts when the pattern matches at p, 0 when it does not:
\* the first choice of the two optional parts that leaves a digit next.
GroupStart(text, p) ==
    LET cl == CurrencyLens(text, p)
        starts(c) == LET sl == SpaceLens(text, p + c)
                     IN  [j \in 1..Len(sl) |-> p + c + sl[j]]
        RECURSIVE Flat(_)
        Flat(i) == IF i > Len(cl) THEN <<>> ELSE starts(cl[i]) \o Flat(i + 1)
        good == SelectSeq(Flat(1), LAMBDA q : At(text, q) \in Digits)
    IN  IF good = <<>> THEN 0 ELSE Head(good)

\* The position after the longest run of digits that starts at i.
RECURSIVE DigitRunEnd(_, _)
DigitRunEnd(text, i) ==
    IF At(text, i) \in Digits THEN DigitRunEnd(text, i + 1) ELSE i

\* Group 1 of a match whose group starts at q: \d+[.,]?\d*, all greedy.
Group1(text, q) ==
    LET e1 == DigitRunEnd(text, q)
        e2 == IF At(text, e1) \in {".", ","} THEN e1 + 1 ELSE e1
        e3 == DigitRunEnd(text, e2)
    IN  SubSeq(text, q, e3 - 1)

\* The positions at which the pattern matches; re.search takes the least.
MatchStarts(text) == { p \in 1..Len(text) : GroupStart(text, p) # 0 }

\* extract_amount(text): float(match.group(1)) if match else 0.0.
\* ok = FALSE is the ValueError float() raises.
extract_amount(text) ==
    LET ms == MatchStarts(text)
    IN  IF ms = {} THEN [ok |-> TRUE, val |-> Zero]
        ELSE LET p == CHOOSE x \in ms : \A y \in ms : x <= y
             IN  ParseFloat(Group1(text, GroupStart(text, p)))

(***************************************************************************)
(* The classifier and classify_category.                                   *)
(***************************************************************************)
Food == <<"F","o","o","d">>

Transport == <<"T","r","a","n","s","p","o","r","t">>

Utilities == <<"U","t","i","l","i","t","i","e","s">>

Entertainment == <<"E","n","t","e","r","t","a","i","n","m","e","n","t">>

Shopping == <<"S","h","o","p","p","i","n","g">>

Healthcare == <<"H","e","a","l","t","h","c","a","r","e">>

Others == <<"O","t","h","e","r","s">>

CATEGORY_LABELS ==
    <<Food, Transport, Utilities, Entertainment, Shopping, Healthcare, Others>>

\* The labels the classifier ranks first in the model.
BestLabels == {Food, Others}

\* What a call of the external classifier can do: raise, return a falsy
\* value (None, {}), or return a dict whose labels list is ordered by
\* score.  Only labels[0] is ever read, so the list is cut to its head.
ClassifierResults ==
    {[raised |-> TRUE, truthy |-> FALSE, labels |-> <<>>],
     [raised |-> FALSE, truthy |-> FALSE, labels |-> <<>>],
     [raised |-> FALSE, truthy |-> TRUE, labels |-> <<>>]}
    \cup {[raised |-> FALSE, truthy |-> TRUE, labels |-> <<l>>] :
              l \in BestLabels}

\* The classifier is not called in this script run.
NotCalled == [raised |-> FALSE, truthy |-> FALSE, labels |-> <<"-">>]

\* classify_category(text), given what the classifier call did:
\* the first label of a truthy result, else Others.
classify_category(result) ==
    IF result.raised THEN [ok |-> FALSE, exc |-> "ClassifierError"]
    ELSE IF result.truthy
         THEN IF result.labels = <<>>
              THEN [ok |-> FALSE, exc |-> "IndexError"]
              ELSE [ok |-> TRUE, val |-> result.labels[1]]
         ELSE [ok |-> TRUE, val |-> Others]

(***************************************************************************)
(* The handlers, as functions of the store and the widget values.          *)
(***************************************************************************)
ManualPrefix == <<"M","a","n","u","a","l",":"," ">>

\* Mutant of ManualRecords: the description is the bare category.
ManualRecords_Unprefixed(categories, amounts) ==
    [i \in 1..Len(categories) |->
        [Description |-> categories[i],
         Amount      |-> amounts[i],
         Category    |-> categories[i]]]

\* The records lines 49-54 append for the zipped categories and amounts.
ManualRecords(categories, amounts) ==
    [i \in 1..Len(categories) |->
        [Description |-> ManualPrefix \o categories[i],
         Amount      |-> amounts[i],
         Category    |-> categories[i]]]

\* Mutant of AddManualExpenses: on a ValueError the amounts parsed before
\* the failing element are kept instead of none.
AddManualExpenses_Partial(store, categories_input, amounts_input) ==
    LET cparts     == Split(categories_input, ",")
        categories == [i \in 1..Len(cparts) |-> Strip(cparts[i])]
        aparts     == Split(amounts_input, ",")
        parsed     == [i \in 1..Len(aparts) |-> ParseFloat(Strip(aparts[i]))]
        numeric    == \A i \in 1..Len(parsed) : parsed[i].ok
        good       == { i \in 0..Len(parsed) :
                          \A j \in 1..i : parsed[j].ok }
        kept       == CHOOSE i \in good : \A j \in good : j <= i
        amounts    == [i \in 1..kept |-> parsed[i].val]
        shown      == IF numeric THEN {} ELSE {"Amounts must be numeric."}
    IN  IF Len(categories) # Len(amounts)
        THEN [expenses |-> store,
              msgs |-> shown \cup
                       {"Number of categories and amounts must match."},
              err |-> "none"]
        ELSE [expenses |-> store \o
                  [i \in 1..Len(categories) |->
                      [Description |-> ManualPrefix \o categories[i],
                       Amount      |-> amounts[i],
                       Category    |-> categories[i]]],
              msgs |-> shown \cup {"Manual expenses added!"},
              err |-> "none"]

\* Lines 38-55: the Add Manual Expenses button.
AddManualExpenses(store, categories_input, amounts_input) ==
    LET cparts     == Split(categories_input, ",")
        categories == [i \in 1..Len(cparts) |-> Strip(cparts[i])]
        aparts     == Split(amounts_input, ",")
        parsed     == [i \in 1..Len(aparts) |-> ParseFloat(Strip(aparts[i]))]
        numeric    == \A i \in 1..Len(parsed) : parsed[i].ok
        amounts    == IF numeric
                      THEN [i \in 1..Len(parsed) |-> parsed[i].val]
                      ELSE <<>>
        shown      == IF numeric THEN {} ELSE {"Amounts must be numeric."}
    IN  IF Len(categories) # Len(amounts)
        THEN [expenses |-> store,
              msgs |-> shown \cup
                       {"Number of categories and amounts must match."},
              err |-> "none"]
        ELSE [expenses |-> store \o ManualRecords(categories, amounts),
              msgs |-> shown \cup {"Manual expenses added!"},
              err |-> "none"]

\* Lines 70-79: the Add AI-Predicted Expense button; result is what the
\* classifier call does if it is reached.  err is the uncaught exception
\* that ends the script run.
AddAIExpense(store, user_input, result) ==
    IF user_input = <<>>
    THEN [expenses |-> store, msgs |-> {}, err |-> "none"]
    ELSE LET amount == extract_amount(user_input)
         IN  IF ~amount.ok
             THEN [expenses |-> store, msgs |-> {}, err |-> "ValueError"]
             ELSE LET category == classify_category(result)
                  IN  IF ~category.ok
                      THEN [expenses |-> store, msgs |-> {},
                            err |-> category.exc]
                      ELSE [expenses |-> Append(store,
                                [Description |-> user_input,
                                 Amount      |-> amount.val,
                                 Category    |-> category.val]),
                            msgs |-> {"Added"},
                            err |-> "none"]

\* Mutant of ClearAllExpenses: the first record survives the clear.
ClearAllExpenses_KeepsFirst(store) ==
    [expenses |-> IF store = <<>> THEN <<>> ELSE <<Head(store)>>,
     msgs |-> {"All previous expenses have been deleted."},
     err |-> "none"]

\* Lines 82-84: the Clear All Expenses button.
ClearAllExpenses(store) ==
    [expenses |-> <<>>,
     msgs |-> {"All previous expenses have been deleted."},
     err |-> "none"]

(***************************************************************************)
(* The expense table and the aggregation block, lines 87-125.              *)
(***************************************************************************)
\* df[Amount].sum()
RECURSIVE Total(_)
Total(store) ==
    IF store = <<>> THEN Zero
    ELSE RatAdd(Total(SubSeq(store, 1, Len(store) - 1)),
                store[Len(store)].Amount)

\* Mutant of BudgetAlert: a total equal to the budget already warns.
BudgetAlert_AtLeast(total, budget) ==
    IF RatLess(Zero, budget)
    THEN IF ~RatLess(total, budget) THEN "warning" ELSE "success"
    ELSE "none"

\* Lines 96-100: the budget alert.
BudgetAlert(total, budget) ==
    IF RatLess(Zero, budget)
    THEN IF RatLess(budget, total) THEN "warning" ELSE "success"
    ELSE "none"

\* The group keys in the order groupby leaves them: sorted ascending.
RECURSIVE SortedKeys(_)
SortedKeys(keys) ==
    IF keys = {} THEN <<>>
    ELSE LET k == CHOOSE x \in keys :
                      \A y \in keys \ {x} : StrLess(x, y)
         IN  <<k>> \o SortedKeys(keys \ {k})

\* groupby(Category)[Amount].sum().reset_index()
GroupSums(store) ==
    LET keys == SortedKeys({ store[i].Category : i \in 1..Len(store) })
    IN  [j \in 1..Len(keys) |->
            [Category |-> keys[j],
             Amount   |-> Total(SelectSeq(store,
                              LAMBDA r : r.Category = keys[j]))]]

\* row goes after every row whose Amount is not smaller.
RECURSIVE InsertDescending(_, _)
InsertDescending(row, rows) ==
    IF rows = <<>> THEN <<row>>
    ELSE IF RatLess(Head(rows).Amount, row.Amount) THEN <<row>> \o rows
    ELSE <<Head(rows)>> \o InsertDescending(row, Tail(rows))

\* sort_values(by=Amount, ascending=False); rows of equal Amount keep
\* their order, as the sort does for the few rows a store here has.
RECURSIVE SortDescending(_)
SortDescending(rows) ==
    IF rows = <<>> THEN <<>>
    ELSE InsertDescending(rows[Len(rows)],
                          SortDescending(SubSeq(rows, 1, Len(rows) - 1)))

\* Mutant of Summary: the groups are left in key order, not sorted.
Summary_Unsorted(store) == GroupSums(store)

\* Line 104.
Summary(store) == SortDescending(GroupSums(store))

\* The body of the if of line 87.
Aggregate(store, budget) ==
    LET total   == Total(store)
        summary == Summary(store)
    IN  [shown        |-> TRUE,
         table        |-> store,
         total        |-> total,
         budget_alert |-> BudgetAlert(total, budget),
         summary      |-> summary,
         avg_expense  |-> Divide(total, Len(store)),
         top_category |-> summary[1].Category,
         top_amount   |-> summary[1].Amount]

NoView == [shown |-> FALSE]

\* Line 87: nothing is computed or shown for an empty store.
Render(store, budget) ==
    IF store # <<>> THEN Aggregate(store, budget) ELSE NoView

\* What a script run leaves on the page: an uncaught exception stops the
\* script before the table and the aggregation are reached.
PageAfter(out, budget) ==
    IF out.err # "none" THEN NoView ELSE Render(out.expenses, budget)

(***************************************************************************)
(* The values the user gives the widgets.                                  *)
(***************************************************************************)
\* A category that is not one of the labels.
Taxi == <<"T","a","x","i">>

\* Categories field: one category, two with blanks around the first, the
\* empty field, a trailing comma.
CategoryInputs ==
    { Food,
      <<" ">> \o Food \o <<" ", ",">> \o Taxi,
      <<>>,
      Food \o <<",">> }

\* Amounts field: 5 | 5, -1.5 | 5,x
AmountInputs ==
    { <<"5">>,
      <<"5", ",", " ", "-", "1", ".", "5">>,
      <<"5", ",", "x">> }

\* AI text field: empty | ₹5 | 1,5
TextInputs ==
    { <<>>, <<"₹", "5">>, <<"1", ",", "5">> }

\* line 35: value=1000.0
DefaultBudget == 1000

\* Values the budget field is set to.
BudgetInputs == { Zero, Rat(5, 1) }

\* The characters of the texts the extractor is applied to in SpecExtract.
ExtractAlphabet == {"5", "2", ".", ",", " ", "₹", "I", "N", "R", "a", "-"}

ExtractTexts ==
    UNION { [1..k -> ExtractAlphabet] : k \in 0..MaxText }

\* The stores the aggregation is applied to in SpecAggregate: manual
\* records of these categories and amounts, in any order.
AggregateRecords ==
    { ManualRecords(<<c>>, <<a>>)[1] :
        c \in {Food, Others, <<>>},
        a \in {Rat(5, 1), Rat(2, 1), Rat(-3, 2)} }

AggregateStores ==
    UNION { [1..k -> AggregateRecords] : k \in 0..MaxRecs }

AggregateBudgets == BudgetInputs \cup {Rat(7, 1), Rat(DefaultBudget, 1)}

(***************************************************************************)
(* The session.                                                            *)
(***************************************************************************)
\* The first script run: no button, empty store, nothing to aggregate.
Init ==
    /\ expenses = <<>>
    /\ user_budget = Rat(DefaultBudget, 1)
    /\ run = [button |-> "none"]
    /\ before = <<>>
    /\ msgs = {}
    /\ err = "none"
    /\ view = NoView
    /\ probe = [phase |-> "off"]

\* A script run leaves its handler's outcome and the page rendered from it.
Finish(out, budget) ==
    /\ before' = expenses
    /\ expenses' = out.expenses
    /\ msgs' = out.msgs
    /\ err' = out.err
    /\ view' = PageAfter(out, budget)

\* A run with the Add Manual Expenses button clicked.
AddManual(categories_input, amounts_input) ==
    \E out \in {AddManualExpenses(expenses, categories_input, amounts_input)} :
        /\ Len(out.expenses) <= MaxStore
        /\ run' = [button |-> "manual",
                   categories_input |-> categories_input,
                   amounts_input |-> amounts_input]
        /\ Finish(out, user_budget)
        /\ UNCHANGED <<user_budget, probe>>

\* Line 72 is reached: the text is truthy and line 71 did not raise.
ClassifierReached(user_input) ==
    user_input # <<>> /\ extract_amount(user_input).ok

\* A run with the Add AI-Predicted Expense button clicked.
AddAI(user_input, result) ==
    \E out \in {AddAIExpense(expenses, user_input, result)} :
        /\ (result = NotCalled) <=> ~ClassifierReached(user_input)
        /\ Len(out.expenses) <= MaxStore
        /\ run' = [button |-> "ai",
                   user_input |-> user_input,
                   result |-> result]
        /\ Finish(out, user_budget)
        /\ UNCHANGED <<user_budget, probe>>

\* A run with the Clear All Expenses button clicked.
ClearAll ==
    /\ run' = [button |-> "clear"]
    /\ Finish(ClearAllExpenses(expenses), user_budget)
    /\ UNCHANGED <<user_budget, probe>>

\* A run caused by a new value of the budget field: no button is clicked.
SetBudget(budget) ==
    /\ user_budget' = budget
    /\ run' = [button |-> "none"]
    /\ Finish([expenses |-> expenses, msgs |-> {}, err |-> "none"], budget)
    /\ UNCHANGED probe

Next ==
    \/ \E c \in CategoryInputs, a \in AmountInputs : AddManual(c, a)
    \/ \E t \in TextInputs, r \in ClassifierResults \cup {NotCalled} :
          AddAI(t, r)
    \/ ClearAll
    \/ \E b \in BudgetInputs \cup {Rat(DefaultBudget, 1)} : SetBudget(b)

Spec == Init /\ [][Next]_vars

(***************************************************************************)
(* The amount extractor alone, on every text of ExtractTexts.              *)
(***************************************************************************)
InitExtract ==
    /\ expenses = <<>>
    /\ user_budget = Rat(DefaultBudget, 1)
    /\ run = [button |-> "none"]
    /\ before = <<>>
    /\ msgs = {}
    /\ err = "none"
    /\ view = NoView
    /\ probe \in { [phase |-> "input", text |-> t] : t \in ExtractTexts }

ExtractStep ==
    /\ probe.phase = "input"
    /\ probe' = [phase  |-> "done",
                 text   |-> probe.text,
                 result |-> extract_amount(probe.text)]
    /\ UNCHANGED <<expenses, user_budget, run, before, msgs, err, view>>

SpecExtract == InitExtract /\ [][ExtractStep]_vars

(***************************************************************************)
(* The aggregation block alone, on every store of AggregateStores: script  *)
(* runs in which no button is clicked.                                     *)
(***************************************************************************)
InitAggregate ==
    /\ expenses \in AggregateStores
    /\ user_budget \in AggregateBudgets
    /\ run = [button |-> "none"]
    /\ before = expenses
    /\ msgs = {}
    /\ err = "none"
    /\ view = NoView
    /\ probe = [phase |-> "stored", previous |-> NoView]

\* A run with no button clicked and no widget changed.
Rerun ==
    /\ probe.phase \in {"stored", "rendered"}
    /\ probe' = [phase    |-> IF probe.phase = "stored"
                               THEN "rendered" ELSE "rendered again",
                 previous |-> view]
    /\ run' = [button |-> "none"]
    /\ Finish([expenses |-> expenses, msgs |-> {}, err |-> "none"],
              user_budget)
    /\ UNCHANGED user_budget

SpecAggregate == InitAggregate /\ [][Rerun]_vars

(***************************************************************************)
(* Reference notions the claims are stated with.                           *)
(***************************************************************************)
\* The elements of a comma-separated field, trimmed.
Elements(field) ==
    LET parts == Split(field, ",")
    IN  [i \in 1..Len(parts) |-> Strip(parts[i])]

\* Some element of the amounts field is not a number.
AmountFails(amounts_input) ==
    \E i \in 1..Len(Elements(amounts_input)) :
        ~ParseFloat(Elements(amounts_input)[i]).ok

\* The two fields have different numbers of elements.
CountsDiffer(categories_input, amounts_input) ==
    Len(Elements(categories_input)) # Len(Elements(amounts_input))

ManualInvalid(categories_input, amounts_input) ==
    AmountFails(amounts_input) \/ CountsDiffer(categories_input, amounts_input)

ValidationErrors ==
    {"Amounts must be numeric.",
     "Number of categories and amounts must match."}

\* The sum of the amounts of a sequence of records, first to last.
RECURSIVE SumAmounts(_)
SumAmounts(records) ==
    IF records = <<>> THEN Zero
    ELSE RatAdd(Head(records).Amount, SumAmounts(Tail(records)))

\* The records of one category, in store order.
OfCategory(store, c) == SelectSeq(store, LAMBDA r : r.Category = c)

Categories(store) == { store[i].Category : i \in 1..Len(store) }

RatLeq(a, b) == ~RatLess(b, a)

(***************************************************************************)
(* Manual entry.                                                           *)
(***************************************************************************)
\* C1: a manual batch with an amount that is not a number, or with
\* different numbers of categories and amounts, is rejected whole: an
\* error is shown, no success is shown, and the store is the store the
\* run began with.
C1_InvalidBatchRejected ==
    (/\ run.button = "manual"
     /\ ManualInvalid(run.categories_input, run.amounts_input))
    => /\ expenses = before
       /\ msgs \cap ValidationErrors # {}
       /\ "Manual expenses added!" \notin msgs
       /\ err = "none"

\* A batch whose first amount is a number and whose second is not, with
\* as many categories as amounts, rejected on a store that had a record.
C1_Witness ==
    /\ run.button = "manual"
    /\ AmountFails(run.amounts_input)
    /\ ~CountsDiffer(run.categories_input, run.amounts_input)
    /\ ParseFloat(Elements(run.amounts_input)[1]).ok
    /\ before # <<>>
    /\ expenses = before
    /\ "Amounts must be numeric." \in msgs

\* C2: every record of the store has a non-negative amount.
C2_AmountsNonNegative ==
    \A i \in 1..Len(expenses) : RatLeq(Zero, expenses[i].Amount)

\* C3: no record of the store has the empty string as its category.
C3_NoEmptyCategory ==
    \A i \in 1..Len(expenses) : expenses[i].Category # <<>>

\* C5: a manual batch of n valid pairs succeeds and leaves the store the
\* run began with followed by n records in input order, the i-th with the
\* description Manual: category_i, the parsed amount_i and the trimmed
\* category_i.
C5_ManualAppends ==
    (/\ run.button = "manual"
     /\ ~ManualInvalid(run.categories_input, run.amounts_input))
    => LET cats == Elements(run.categories_input)
           amts == Elements(run.amounts_input)
       IN  /\ Len(expenses) = Len(before) + Len(cats)
           /\ SubSeq(expenses, 1, Len(before)) = before
           /\ \A i \in 1..Len(cats) :
                  expenses[Len(before) + i] =
                      [Description |-> ManualPrefix \o cats[i],
                       Amount      |-> ParseFloat(amts[i]).val,
                       Category    |-> cats[i]]
           /\ "Manual expenses added!" \in msgs
           /\ msgs \cap ValidationErrors = {}

\* Two pairs, the first category typed with blanks around it and the
\* second not one of the labels, appended to a store that had a record.
C5_Witness ==
    /\ run.button = "manual"
    /\ ~ManualInvalid(run.categories_input, run.amounts_input)
    /\ Len(Elements(run.categories_input)) = 2
    /\ Head(run.categories_input) = " "
    /\ before # <<>>
    /\ Len(expenses) = Len(before) + 2
    /\ expenses[Len(before) + 1].Category = Food
    /\ expenses[Len(before) + 1].Description = ManualPrefix \o Food
    /\ expenses[Len(before) + 2].Category \notin Range(CATEGORY_LABELS)
    /\ expenses[Len(before) + 2].Category # <<>>

(***************************************************************************)
(* AI entry.                                                               *)
(***************************************************************************)
\* The classifier call of the last run raised or returned no labels.
ClassifierFailed ==
    /\ run.button = "ai"
    /\ run.user_input # <<>>
    /\ run.result # NotCalled
    /\ run.result.raised \/ run.result.labels = <<>>

\* C4: when the classifier raises or returns no labels for a non-empty
\* text, the run ends without an exception and has appended the record
\* with the text, the extracted amount and the category Others.
C4_ClassifierFallback ==
    ClassifierFailed
    => /\ err = "none"
       /\ expenses = Append(before,
              [Description |-> run.user_input,
               Amount      |-> extract_amount(run.user_input).val,
               Category    |-> Others])

\* C7: an AI run with empty text changes nothing and reports no error; a
\* run with non-empty text appends exactly one record, with the text, the
\* extractor's amount for it and the classifier's best label among the
\* fixed labels.
C7_AIAppendsOne ==
    run.button = "ai"
    => IF run.user_input = <<>>
       THEN expenses = before /\ err = "none"
       ELSE /\ err = "none"
            /\ Len(expenses) = Len(before) + 1
            /\ SubSeq(expenses, 1, Len(before)) = before
            /\ expenses[Len(expenses)].Description = run.user_input
            /\ extract_amount(run.user_input).ok
            /\ expenses[Len(expenses)].Amount =
                   extract_amount(run.user_input).val
            /\ expenses[Len(expenses)].Category \in Range(CATEGORY_LABELS)
            /\ run.result.labels # <<>>
                   => expenses[Len(expenses)].Category = run.result.labels[1]

\* The text of group 1 with each comma read as a decimal point.
CommaAsPoint(s) == [i \in 1..Len(s) |-> IF s[i] = "," THEN "." ELSE s[i]]

\* C10: extract_amount returns a non-negative number for every text: the
\* first match's digits, a comma read as the decimal point, and 0 when
\* nothing matches.
C10_ExtractTotal ==
    probe.phase = "done"
    => /\ probe.result.ok
       /\ RatLeq(Zero, probe.result.val)
       /\ IF MatchStarts(probe.text) = {}
          THEN probe.result.val = Zero
          ELSE LET p == CHOOSE x \in MatchStarts(probe.text) :
                            \A y \in MatchStarts(probe.text) : x <= y
                   g == Group1(probe.text, GroupStart(probe.text, p))
               IN  probe.result.val = ParseFloat(CommaAsPoint(g)).val

(***************************************************************************)
(* Clear-all and the aggregation.                                          *)
(***************************************************************************)
\* C6: a run with the clear button leaves the store empty whatever it
\* held, and the aggregation is skipped on an empty store: whenever an
\* average is shown, the store has a record and the division succeeded.
C6_ClearEmptiesAndSkips ==
    /\ run.button = "clear"
           => expenses = <<>> /\ ~view.shown /\ err = "none"
    /\ expenses = <<>> => ~view.shown
    /\ view.shown => Len(expenses) > 0 /\ view.avg_expense.ok

\* A clear of a store that held the records of a manual and an AI entry.
C6_Witness ==
    /\ run.button = "clear"
    /\ \E i, j \in 1..Len(before) :
           /\ before[i].Description = ManualPrefix \o before[i].Category
           /\ before[j].Description # ManualPrefix \o before[j].Category
    /\ expenses = <<>>
    /\ ~view.shown

\* C8: for a non-empty store, with a budget above 0 the warning is shown
\* exactly when the sum of all amounts is greater than the budget and the
\* within-budget message otherwise; with no budget neither is shown.
C8_BudgetAlert ==
    view.shown
    => IF RatLess(Zero, user_budget)
       THEN /\ view.budget_alert = "warning"
                   <=> RatLess(user_budget, SumAmounts(expenses))
            /\ view.budget_alert = "success"
                   <=> RatLeq(SumAmounts(expenses), user_budget)
       ELSE view.budget_alert = "none"

\* A store of several records whose total is exactly the budget.
C8_Witness ==
    /\ view.shown
    /\ Len(expenses) >= 2
    /\ RatLess(Zero, user_budget)
    /\ SumAmounts(expenses) = user_budget
    /\ view.budget_alert = "success"

====
